---- MODULE Spec2Model ----
(***************************************************************************)
(* pgsmod: crops PGS subtitle streams.  main() reads every segment into    *)
(* memory, inventories object sizes, rewrites coordinates, and writes the  *)
(* segments back.  cropped_object_offset() is the u16 remapping function.  *)
(***************************************************************************)
EXTENDS Integers, Sequences, FiniteSets, TLC

VARIABLES
    overflow_checks,   \* build profile: TRUE = u16 overflow panics, FALSE = wraps
    crop_width,        \* --crop-width
    crop_height,       \* --crop-height
    margin,            \* --margin
    pc,                \* position of main(): the pass being run
    panic,             \* "none", or the reason main() panicked
    last_read,         \* what the most recent read_seg() call met on the input
    segs,              \* Vec<Seg>, mutated in place by the transform pass
    decoded,           \* the segments as they were decoded (before mutation)
    idx,               \* position of the running for-loop in segs (1-based)
    comp_num,          \* cursor: current composition number
    obj_sizes,         \* HashMap<ObjHandle, Size>
    screen_sizes,      \* Vec<Size> of resolutions already announced
    screen_full_size,  \* cursor: current full-frame size
    warnings,          \* number of "cannot fit" warnings printed
    wrapped,           \* TRUE once a u16 operation has wrapped around
    out,               \* segments handed to write_seg(), in order
    call,              \* arguments of a direct cropped_object_offset call
    ret                \* outcome of that call

vars == <<overflow_checks, crop_width, crop_height, margin, pc, panic,
          last_read, segs, decoded, idx, comp_num, obj_sizes, screen_sizes,
          screen_full_size, warnings, wrapped, out, call, ret>>

-----------------------------------------------------------------------------
(* Bounds and input pools *)

\* Longest segment list read from the input.
MaxSegs == 3

\* u16 has 2^16 values.
U16Range == 65536

-----------------------------------------------------------------------------
(* u16 arithmetic: each operation yields the wrapped value and whether it   *)
(* left 0..65535 (which panics when overflow checks are compiled in).       *)

u16_add(a, b) == [v |-> (a + b) % U16Range, o |-> (a + b) >= U16Range]

u16_sub(a, b) == [v |-> (a - b + U16Range) % U16Range, o |-> a < b]

u16_mul(a, b) == [v |-> (a * b) % U16Range, o |-> (a * b) >= U16Range]

\* The clamp of lines 289-296, given new_offset and whether anything wrapped so far.
ClampOffset(new_offset, screen_crop_size, object_size, m, ovf) ==
    IF new_offset.v < m
    THEN [ret |-> m, warn |-> FALSE, overflow |-> ovf]
    ELSE LET t1 == u16_add(new_offset.v, object_size)
             t2 == u16_add(t1.v, m)
         IN IF t2.v > screen_crop_size
            THEN LET u1 == u16_sub(screen_crop_size, object_size)
                     u2 == u16_sub(u1.v, m)
                 IN [ret |-> u2.v, warn |-> FALSE,
                     overflow |-> ovf \/ t1.o \/ t2.o \/ u1.o \/ u2.o]
            ELSE [ret |-> new_offset.v, warn |-> FALSE,
                  overflow |-> ovf \/ t1.o \/ t2.o]

\* fn cropped_object_offset: the value a wrapping build returns, whether the
\* warning is printed, and whether any u16 operation on the path overflowed.
cropped_object_offset(screen_full_size_, screen_crop_size, object_size, object_offset, m) ==
    LET m2 == u16_mul(2, m)
        need == u16_add(object_size, m2.v)
    IN IF need.v > screen_crop_size
       THEN [ret |-> 0, warn |-> TRUE, overflow |-> m2.o \/ need.o]
       ELSE LET diff == u16_sub(screen_full_size_, screen_crop_size)
                new_offset == u16_sub(object_offset, diff.v \div 2)
            IN ClampOffset(new_offset, screen_crop_size, object_size, m,
                           m2.o \/ need.o \/ diff.o \/ new_offset.o)

-----------------------------------------------------------------------------
(* Data model: the fields of pgs::Seg that main() reads or writes, the rest *)
(* kept as opaque values.                                                   *)

Size(w, h) == [width |-> w, height |-> h]

ObjHandle(c, id) == <<c, id>>

\* Option<crop> is a sequence of length 0 (None) or 1 (Some).
None == <<>>

Some(v) == <<v>>

CropRect(x, y, w, h) == [x |-> x, y |-> y, width |-> w, height |-> h]

CompObj(obj_id, win_id, x, y, crop) ==
    [obj_id |-> obj_id, win_id |-> win_id, x |-> x, y |-> y, crop |-> crop]

WinDefEntry(id, x, y, w, h) == [id |-> id, x |-> x, y |-> y, width |-> w, height |-> h]

PresComp(pts, c, w, h, objs) ==
    [pts |-> pts, dts |-> pts - 1,
     body |-> [type |-> "PresComp", comp_num |-> c, width |-> w, height |-> h,
               state |-> "EpochStart", comp_objs |-> objs]]

WinDef(pts, wds) ==
    [pts |-> pts, dts |-> pts - 1, body |-> [type |-> "WinDef", wds |-> wds]]

ObjDef(pts, id, w, h) ==
    [pts |-> pts, dts |-> pts - 1,
     body |-> [type |-> "ObjDef", id |-> id, width |-> w, height |-> h, data |-> "rle"]]

PalDef(pts) ==
    [pts |-> pts, dts |-> pts - 1, body |-> [type |-> "PalDef", data |-> "palette"]]

EndSeg(pts) ==
    [pts |-> pts, dts |-> pts - 1, body |-> [type |-> "End"]]

\* Segments the input stream can deliver.
SegPool ==
    { PresComp(100, 1, 1920, 1080, <<CompObj(7, 0, 860, 500, None)>>),
      PresComp(200, 1, 1920, 1080,
               <<CompObj(7, 0, 860, 970, Some(CropRect(0, 100, 200, 50)))>>),
      PresComp(300, 0, 720, 480, <<>>),
      PresComp(400, 0, 1920, 1080,
               <<CompObj(7, 0, 860, 500, None), CompObj(7, 1, 100, 970, None)>>),
      ObjDef(500, 7, 200, 100),
      ObjDef(600, 7, 300, 700),
      WinDef(700, <<WinDefEntry(0, 860, 500, 200, 100),
                    WinDefEntry(1, 0, 970, 1920, 100)>>),
      PalDef(800),
      EndSeg(900) }

\* Command lines: --crop-width, --crop-height, --margin.
CropWidths == {1920}

CropHeights == {800}

Margins == {30, 32768}

\* What a read_seg() call can meet on the input stream.
ReadErrors == {"EofAtBoundary", "EofMidSegment", "IoFailure", "BadSegment"}

\* Arguments for direct calls of cropped_object_offset.
ArgFull == {0, 1080, 65535}

ArgCrop == {150, 800, 65535}

ArgSize == {0, 100, 65535}

ArgOffset == {0, 100, 500, 970, 65535}

ArgMargin == {0, 30, 32768, 65535}

NoCall == [full |-> 0, crop |-> 0, size |-> 0, offset |-> 0, margin |-> 0]

NoRet == [tag |-> "none", val |-> 0, warn |-> FALSE]

EmptyMap == [h \in {} |-> Size(0, 0)]

-----------------------------------------------------------------------------
(* main(): start *)

Init ==
    /\ overflow_checks \in BOOLEAN
    /\ crop_width \in CropWidths
    /\ crop_height \in CropHeights
    /\ margin \in Margins
    /\ pc = "read"
    /\ panic = "none"
    /\ last_read = "Ok"
    /\ segs = <<>>
    /\ decoded = <<>>
    /\ idx = 1
    /\ comp_num = 0
    /\ obj_sizes = EmptyMap
    /\ screen_sizes = <<>>
    /\ screen_full_size = Size(0, 0)
    /\ warnings = 0
    /\ wrapped = FALSE
    /\ out = <<>>
    /\ call = NoCall
    /\ ret = NoRet

Running(p) == pc = p /\ panic = "none"

-----------------------------------------------------------------------------
(* Read loop, lines 135-155 *)

\* The error read_seg() returns for what it met: running out of bytes, at a
\* segment boundary or inside a segment, is an I/O error of kind UnexpectedEof.
read_seg_error(met) ==
    CASE met = "EofAtBoundary" -> [tag |-> "IoError", kind |-> "UnexpectedEof"]
      [] met = "EofMidSegment" -> [tag |-> "IoError", kind |-> "UnexpectedEof"]
      [] met = "IoFailure"     -> [tag |-> "IoError", kind |-> "Other"]
      [] OTHER                 -> [tag |-> "Bitstream", kind |-> "n/a"]

\* The match of lines 141-151: "break", or the panic raised.
ReadErrOutcome(err) ==
    IF err.tag = "IoError"
    THEN IF err.kind # "UnexpectedEof" THEN "io error" ELSE "break"
    ELSE "bitstream error"

ReadSegOk ==
    /\ Running("read")
    /\ Len(segs) < MaxSegs
    /\ \E seg \in SegPool :
          /\ segs' = Append(segs, seg)
          /\ decoded' = Append(decoded, seg)
    /\ last_read' = "Ok"
    /\ UNCHANGED <<overflow_checks, crop_width, crop_height, margin, pc, panic,
                   idx, comp_num, obj_sizes, screen_sizes, screen_full_size,
                   warnings, wrapped, out, call, ret>>

ReadSegErr ==
    /\ Running("read")
    /\ \E met \in ReadErrors :
          LET outcome == ReadErrOutcome(read_seg_error(met))
          IN /\ last_read' = met
             /\ IF outcome = "break"
                THEN /\ pc' = "inventory"
                     /\ panic' = panic
                ELSE /\ pc' = pc
                     /\ panic' = outcome
    /\ idx' = 1
    /\ UNCHANGED <<overflow_checks, crop_width, crop_height, margin, segs,
                   decoded, comp_num, obj_sizes, screen_sizes, screen_full_size,
                   warnings, wrapped, out, call, ret>>

-----------------------------------------------------------------------------
(* Inventory pass, lines 157-179 *)

\* Mutation of InsertIsSome: the result of insert() is ignored, so a second
\* definition silently replaces the first.
InsertIsSomeIgnored(map, k) == FALSE

\* HashMap::insert(k, v).is_some(): was the key already present?
InsertIsSome(map, k) == k \in DOMAIN map

\* HashMap::insert(k, v): the map afterwards (a present key is overwritten).
Insert(map, k, v) == [h \in DOMAIN map \cup {k} |-> IF h = k THEN v ELSE map[h]]

InventorySeg ==
    /\ Running("inventory")
    /\ idx <= Len(segs)
    /\ LET body == segs[idx].body
       IN CASE body.type = "PresComp" ->
                 /\ comp_num' = body.comp_num
                 /\ UNCHANGED <<obj_sizes, panic>>
            [] body.type = "ObjDef" ->
                 LET k == ObjHandle(comp_num, body.id)
                 IN /\ obj_sizes' = Insert(obj_sizes, k, Size(body.width, body.height))
                    /\ panic' = IF InsertIsSome(obj_sizes, k)
                                THEN "duplicate object id" ELSE panic
                    /\ UNCHANGED comp_num
            [] OTHER -> UNCHANGED <<comp_num, obj_sizes, panic>>
    /\ idx' = IF panic' = "none" THEN idx + 1 ELSE idx
    /\ UNCHANGED <<overflow_checks, crop_width, crop_height, margin, pc,
                   last_read, segs, decoded, screen_sizes, screen_full_size,
                   warnings, wrapped, out, call, ret>>

InventoryDone ==
    /\ Running("inventory")
    /\ idx > Len(segs)
    /\ pc' = "transform"
    /\ idx' = 1
    /\ screen_sizes' = <<>>
    /\ screen_full_size' = Size(0, 0)
    /\ UNCHANGED <<overflow_checks, crop_width, crop_height, margin, panic,
                   last_read, segs, decoded, comp_num, obj_sizes, warnings,
                   wrapped, out, call, ret>>

-----------------------------------------------------------------------------
(* Transform pass, lines 181-261 *)

\* Mutation of FullSizeOf: the size is read after lines 238-239 overwrote it.
FullSizeAfterOverwrite(pcs) == Size(crop_width, crop_height)

\* Line 190: the full-frame size a PresentationComposition sets the cursor to.
FullSizeOf(pcs) == Size(pcs.width, pcs.height)

\* Lines 191-197: announce a resolution once.
PushIfNew(sizes, sz) ==
    IF \E i \in 1 .. Len(sizes) : sizes[i] = sz THEN sizes ELSE Append(sizes, sz)

\* The result of one step of a loop body: a cropped_object_offset call, or the
\* failed lookup of an object size.
CallEvent(r) == [ret |-> r.ret, warn |-> r.warn, overflow |-> r.overflow, missing |-> FALSE]

MissingEvent == [ret |-> 0, warn |-> FALSE, overflow |-> FALSE, missing |-> TRUE]

\* Lines 199-236: the calls made for one composition object, in order.
CompObjEvents(co, full, sizes, c) ==
    IF ObjHandle(c, co.obj_id) \notin DOMAIN sizes
    THEN <<MissingEvent>>
    ELSE LET obj_size == sizes[ObjHandle(c, co.obj_id)]
         IN <<CallEvent(cropped_object_offset(full.width, crop_width,
                                              obj_size.width, co.x, margin)),
              CallEvent(cropped_object_offset(full.height, crop_height,
                                              obj_size.height, co.y, margin))>>
            \o (IF co.crop = None
                THEN <<>>
                ELSE <<CallEvent(cropped_object_offset(full.width, crop_width,
                                     co.crop[1].width, co.crop[1].x, margin)),
                       CallEvent(cropped_object_offset(full.height, crop_height,
                                     co.crop[1].height, co.crop[1].y, margin))>>)

\* Lines 202-236: the composition object after its calls returned.
RemapCompObj(co, ev) ==
    [co EXCEPT !.x = ev[1].ret,
               !.y = ev[2].ret,
               !.crop = IF co.crop = None
                        THEN None
                        ELSE Some([co.crop[1] EXCEPT !.x = ev[3].ret, !.y = ev[4].ret])]

\* Lines 243-256: the calls made for one window, in order.
WinDefEvents(wd, full) ==
    <<CallEvent(cropped_object_offset(full.width, crop_width, wd.width, wd.x, margin)),
      CallEvent(cropped_object_offset(full.height, crop_height, wd.height, wd.y, margin))>>

\* Mutation of RemapWinDef: the results are stored in the size fields.
RemapWinDefSize(wd, ev) == [wd EXCEPT !.width = ev[1].ret, !.height = ev[2].ret]

\* Lines 243-256: the window after its calls returned.
RemapWinDef(wd, ev) == [wd EXCEPT !.x = ev[1].ret, !.y = ev[2].ret]

RECURSIVE Flatten(_)
Flatten(ss) == IF ss = <<>> THEN <<>> ELSE Head(ss) \o Flatten(Tail(ss))

\* An event that ends the run: a failed expect(), or an overflow in a build
\* that checks for it.
Fails(e) == e.missing \/ (overflow_checks /\ e.overflow)

\* Index of the first event that ends the run, 0 if none does.
FirstFailure(es) ==
    IF \E i \in 1 .. Len(es) : Fails(es[i])
    THEN CHOOSE i \in 1 .. Len(es) :
            Fails(es[i]) /\ \A j \in 1 .. (i - 1) : ~Fails(es[j])
    ELSE 0

\* Number of events that ran to their end.
Completed(es) == IF FirstFailure(es) = 0 THEN Len(es) ELSE FirstFailure(es) - 1

PanicOf(es) ==
    IF FirstFailure(es) = 0 THEN "none"
    ELSE IF es[FirstFailure(es)].missing
         THEN "Could not find object size."
         ELSE "arithmetic overflow"

WarningsOf(es) == Cardinality({i \in 1 .. Completed(es) : es[i].warn})

WrappedIn(es) == \E i \in 1 .. Completed(es) : es[i].overflow

\* Lines 188-240: the PresentationComposition after the loop body.
TransformPresComp(pcs, full, sizes) ==
    [pcs EXCEPT !.comp_objs = [k \in 1 .. Len(pcs.comp_objs) |->
                                  RemapCompObj(pcs.comp_objs[k],
                                      CompObjEvents(pcs.comp_objs[k], full, sizes,
                                                    pcs.comp_num))],
                !.width = crop_width,
                !.height = crop_height]

\* Lines 241-258: the WindowDefinition after the loop body.
TransformWinDef(body, full) ==
    [body EXCEPT !.wds = [k \in 1 .. Len(body.wds) |->
                             RemapWinDef(body.wds[k], WinDefEvents(body.wds[k], full))]]

TransformPresCompSeg ==
    /\ Running("transform")
    /\ idx <= Len(segs)
    /\ segs[idx].body.type = "PresComp"
    /\ LET pcs == segs[idx].body
           full == FullSizeOf(pcs)
           es == Flatten([k \in 1 .. Len(pcs.comp_objs) |->
                            CompObjEvents(pcs.comp_objs[k], full, obj_sizes,
                                          pcs.comp_num)])
       IN /\ comp_num' = pcs.comp_num
          /\ screen_full_size' = full
          /\ screen_sizes' = PushIfNew(screen_sizes, full)
          /\ panic' = PanicOf(es)
          /\ warnings' = warnings + WarningsOf(es)
          /\ wrapped' = (wrapped \/ WrappedIn(es))
          /\ IF PanicOf(es) = "none"
             THEN /\ segs' = [segs EXCEPT ![idx].body =
                                  TransformPresComp(pcs, full, obj_sizes)]
                  /\ idx' = idx + 1
             ELSE UNCHANGED <<segs, idx>>
    /\ UNCHANGED <<overflow_checks, crop_width, crop_height, margin, pc,
                   last_read, decoded, obj_sizes, out, call, ret>>

TransformWinDefSeg ==
    /\ Running("transform")
    /\ idx <= Len(segs)
    /\ segs[idx].body.type = "WinDef"
    /\ LET body == segs[idx].body
           es == Flatten([k \in 1 .. Len(body.wds) |->
                            WinDefEvents(body.wds[k], screen_full_size)])
       IN /\ panic' = PanicOf(es)
          /\ warnings' = warnings + WarningsOf(es)
          /\ wrapped' = (wrapped \/ WrappedIn(es))
          /\ IF PanicOf(es) = "none"
             THEN /\ segs' = [segs EXCEPT ![idx].body =
                                  TransformWinDef(body, screen_full_size)]
                  /\ idx' = idx + 1
             ELSE UNCHANGED <<segs, idx>>
    /\ UNCHANGED <<overflow_checks, crop_width, crop_height, margin, pc,
                   last_read, decoded, comp_num, obj_sizes, screen_sizes,
                   screen_full_size, out, call, ret>>

TransformOtherSeg ==
    /\ Running("transform")
    /\ idx <= Len(segs)
    /\ segs[idx].body.type \notin {"PresComp", "WinDef"}
    /\ idx' = idx + 1
    /\ UNCHANGED <<overflow_checks, crop_width, crop_height, margin, pc, panic,
                   last_read, segs, decoded, comp_num, obj_sizes, screen_sizes,
                   screen_full_size, warnings, wrapped, out, call, ret>>

TransformDone ==
    /\ Running("transform")
    /\ idx > Len(segs)
    /\ pc' = "write"
    /\ idx' = 1
    /\ UNCHANGED <<overflow_checks, crop_width, crop_height, margin, panic,
                   last_read, segs, decoded, comp_num, obj_sizes, screen_sizes,
                   screen_full_size, warnings, wrapped, out, call, ret>>

-----------------------------------------------------------------------------
(* Write loop and flush, lines 263-271 *)

\* Mutation of WriteSeg: each segment is written as soon as it is transformed.
WriteSegStreaming ==
    /\ pc \in {"transform", "write"}
    /\ panic = "none"
    /\ Len(out) < Len(segs)
    /\ Len(out) < idx
    /\ out' = Append(out, segs[Len(out) + 1])
    /\ UNCHANGED <<overflow_checks, crop_width, crop_height, margin, pc, panic,
                   last_read, segs, decoded, idx, comp_num, obj_sizes, screen_sizes,
                   screen_full_size, warnings, wrapped, call, ret>>

WriteSeg ==
    /\ Running("write")
    /\ idx <= Len(segs)
    /\ \E ok \in BOOLEAN :
          IF ok
          THEN /\ out' = Append(out, segs[idx])
               /\ idx' = idx + 1
               /\ panic' = panic
          ELSE /\ panic' = "Could not write frame to output stream"
               /\ UNCHANGED <<out, idx>>
    /\ UNCHANGED <<overflow_checks, crop_width, crop_height, margin, pc,
                   last_read, segs, decoded, comp_num, obj_sizes, screen_sizes,
                   screen_full_size, warnings, wrapped, call, ret>>

Flush ==
    /\ Running("write")
    /\ idx > Len(segs)
    /\ \E ok \in BOOLEAN :
          IF ok
          THEN /\ pc' = "done"
               /\ panic' = panic
          ELSE /\ pc' = pc
               /\ panic' = "Could not flush output stream."
    /\ UNCHANGED <<overflow_checks, crop_width, crop_height, margin,
                   last_read, segs, decoded, idx, comp_num, obj_sizes,
                   screen_sizes, screen_full_size, warnings, wrapped, out, call, ret>>

Next ==
    \/ ReadSegOk
    \/ ReadSegErr
    \/ InventorySeg
    \/ InventoryDone
    \/ TransformPresCompSeg
    \/ TransformWinDefSeg
    \/ TransformOtherSeg
    \/ TransformDone
    \/ WriteSeg
    \/ Flush

Spec == Init /\ [][Next]_vars

-----------------------------------------------------------------------------
(* Direct calls of cropped_object_offset on drawn arguments *)

InitOffset ==
    /\ overflow_checks \in BOOLEAN
    /\ call \in [full : ArgFull, crop : ArgCrop, size : ArgSize,
                 offset : ArgOffset, margin : ArgMargin]
    /\ ret = NoRet
    /\ pc = "call"
    /\ panic = "none"
    /\ crop_width = 0
    /\ crop_height = 0
    /\ margin = 0
    /\ last_read = "Ok"
    /\ segs = <<>>
    /\ decoded = <<>>
    /\ idx = 1
    /\ comp_num = 0
    /\ obj_sizes = EmptyMap
    /\ screen_sizes = <<>>
    /\ screen_full_size = Size(0, 0)
    /\ warnings = 0
    /\ wrapped = FALSE
    /\ out = <<>>

CallResult ==
    cropped_object_offset(call.full, call.crop, call.size, call.offset, call.margin)

OffsetReturns ==
    /\ pc = "call"
    /\ ~(overflow_checks /\ CallResult.overflow)
    /\ ret' = [tag |-> "value", val |-> CallResult.ret, warn |-> CallResult.warn]
    /\ wrapped' = CallResult.overflow
    /\ pc' = "returned"
    /\ UNCHANGED <<overflow_checks, crop_width, crop_height, margin, panic,
                   last_read, segs, decoded, idx, comp_num, obj_sizes,
                   screen_sizes, screen_full_size, warnings, out, call>>

OffsetPanics ==
    /\ pc = "call"
    /\ overflow_checks /\ CallResult.overflow
    /\ ret' = [tag |-> "panic", val |-> 0, warn |-> FALSE]
    /\ panic' = "arithmetic overflow"
    /\ pc' = "returned"
    /\ UNCHANGED <<overflow_checks, crop_width, crop_height, margin,
                   last_read, segs, decoded, idx, comp_num, obj_sizes,
                   screen_sizes, screen_full_size, warnings, wrapped, out, call>>

NextOffset == OffsetReturns \/ OffsetPanics

SpecOffset == InitOffset /\ [][NextOffset]_vars

-----------------------------------------------------------------------------
(* Properties of cropped_object_offset, checked under SpecOffset *)

\* size + 2*margin <= crop, as integers.
Feasible(c) == c.size + 2 * c.margin <= c.crop

\* The reference remapping over the integers.
Reference(c) ==
    LET shifted == c.offset - ((c.full - c.crop) \div 2)
    IN IF shifted < c.margin THEN c.margin
       ELSE IF shifted + c.size + c.margin > c.crop
            THEN c.crop - c.size - c.margin
            ELSE shifted

\* C1: for every feasible input, the value cropped_object_offset returns
\* lies in [margin, crop - size - margin].
ClampBound ==
    (pc = "returned" /\ ret.tag = "value" /\ Feasible(call)) =>
        /\ call.margin <= ret.val
        /\ ret.val <= call.crop - call.size - call.margin

\* C2: for every input with size + 2*margin > crop (as integers), the call
\* returns 0 and prints the "cannot fit" warning.
InfeasibleReturnsZero ==
    (pc = "returned" /\ ~Feasible(call)) =>
        (ret.tag = "value" /\ ret.val = 0 /\ ret.warn)

\* C3: for every feasible input, the value cropped_object_offset returns is
\* the value of the reference algorithm.
MatchesReference ==
    (pc = "returned" /\ ret.tag = "value" /\ Feasible(call)) =>
        ret.val = Reference(call)

-----------------------------------------------------------------------------
(* Properties of main(), checked under Spec *)

IsType(seg, t) == seg.body.type = t

\* The composition number the inventory cursor holds when it visits segment i:
\* that of the last PresentationComposition before i, or the initial 0.
CursorAt(i) ==
    LET before == {j \in 1 .. (i - 1) : IsType(decoded[j], "PresComp")}
    IN IF before = {} THEN 0
       ELSE decoded[CHOOSE j \in before : \A k \in before : k <= j].body.comp_num

\* Segments i < j are ObjectDefinitions with one object id, recorded under
\* one composition id.
DupPair(i, j) ==
    /\ i < j
    /\ IsType(decoded[i], "ObjDef")
    /\ IsType(decoded[j], "ObjDef")
    /\ decoded[i].body.id = decoded[j].body.id
    /\ CursorAt(i) = CursorAt(j)

PastInventory == pc \in {"transform", "write", "done"}

\* C4: the inventory pass panics when it meets the second ObjectDefinition of
\* a duplicate pair; no run gets past the inventory with a duplicate, and the
\* inventory that reaches the transform holds each definition's own size.
DuplicateIsFatal ==
    /\ pc = "inventory" =>
          /\ \A i, j \in 1 .. (idx - 1) : ~DupPair(i, j)
          /\ panic # "none" =>
                (panic = "duplicate object id"
                 /\ \E i \in 1 .. (idx - 1) : DupPair(i, idx))
    /\ PastInventory =>
          /\ \A i, j \in 1 .. Len(decoded) : ~DupPair(i, j)
          /\ \A i \in 1 .. Len(decoded) :
                IsType(decoded[i], "ObjDef") =>
                    /\ ObjHandle(CursorAt(i), decoded[i].body.id) \in DOMAIN obj_sizes
                    /\ obj_sizes[ObjHandle(CursorAt(i), decoded[i].body.id)]
                         = Size(decoded[i].body.width, decoded[i].body.height)

\* A duplicate under the composition id of a visited PresentationComposition
\* stopped the run in the inventory pass.
DuplicateIsFatalWitness ==
    /\ pc = "inventory"
    /\ panic = "duplicate object id"
    /\ CursorAt(idx) = 1
    /\ \E i \in 1 .. (idx - 1) : DupPair(i, idx)
    /\ out = <<>>

\* Number of segments the transform pass has finished with.
Transformed ==
    IF pc = "transform" THEN idx - 1
    ELSE IF pc \in {"write", "done"} THEN Len(segs) ELSE 0

\* Segment i is a PresentationComposition with a CompositionObject whose
\* (composition id, object id) has no inventory entry.
Unresolved(i) ==
    /\ IsType(decoded[i], "PresComp")
    /\ \E k \in 1 .. Len(decoded[i].body.comp_objs) :
          ObjHandle(decoded[i].body.comp_num, decoded[i].body.comp_objs[k].obj_id)
             \notin DOMAIN obj_sizes

\* C5: the transform pass panics if and only if the segment it visits holds
\* an unresolved CompositionObject.
TransformAbortsIffUnresolved ==
    /\ (pc = "transform" /\ panic # "none") => Unresolved(idx)
    /\ \A i \in 1 .. Transformed : ~Unresolved(i)

\* C6: segments are written only after the read loop ended at end of input,
\* the inventory holds every ObjectDefinition and the transform rewrote every
\* PresentationComposition; a run that panicked before has written nothing.
NoOutputBeforePasses ==
    /\ out # <<>> =>
          /\ pc \in {"write", "done"}
          /\ last_read \in {"EofAtBoundary", "EofMidSegment"}
          /\ Len(segs) = Len(decoded)
          /\ \A i \in 1 .. Len(decoded) :
                IsType(decoded[i], "ObjDef") =>
                    ObjHandle(CursorAt(i), decoded[i].body.id) \in DOMAIN obj_sizes
          /\ \A i \in 1 .. Len(segs) :
                IsType(segs[i], "PresComp") =>
                    (segs[i].body.width = crop_width /\ segs[i].body.height = crop_height)
    /\ (panic # "none" /\ pc \in {"read", "inventory", "transform"}) => out = <<>>
    /\ \A i \in 1 .. Len(out) : out[i] = segs[i]

\* Rewritten segments, a PresentationComposition among them, have been written.
NoOutputBeforePassesWitness ==
    /\ Len(out) >= 2
    /\ \E i \in 1 .. Len(out) :
          IsType(out[i], "PresComp") /\ out[i] # decoded[i]

\* C7: the read loop ends normally only at end of input on a segment boundary;
\* end of input inside a segment stops the run with a panic.
ReadEndsOnlyAtBoundary ==
    /\ pc # "read" => last_read = "EofAtBoundary"
    /\ last_read = "EofMidSegment" => panic # "none"

\* A segment with every field the transform may change blanked.
Blank(seg) ==
    CASE IsType(seg, "PresComp") ->
           [seg EXCEPT !.body.width = 0, !.body.height = 0,
                       !.body.comp_objs =
                           [k \in 1 .. Len(seg.body.comp_objs) |->
                               [seg.body.comp_objs[k] EXCEPT
                                   !.x = 0, !.y = 0,
                                   !.crop = IF @ = None THEN None
                                            ELSE Some([@[1] EXCEPT !.x = 0, !.y = 0])]]]
      [] IsType(seg, "WinDef") ->
           [seg EXCEPT !.body.wds =
                           [k \in 1 .. Len(seg.body.wds) |->
                               [seg.body.wds[k] EXCEPT !.x = 0, !.y = 0]]]
      [] OTHER -> seg

\* C8: segs differs from the decoded list only in the x/y of CompositionObjects,
\* CropRects and WindowDefs and in the width/height of PresentationCompositions.
TransformFrame ==
    /\ Len(segs) = Len(decoded)
    /\ \A i \in 1 .. Len(segs) : Blank(segs[i]) = Blank(decoded[i])

\* The pass has completed, having moved a window and rewritten a composition
\* that carries a CropRect.
TransformFrameWitness ==
    /\ pc = "write"
    /\ \E i, j \in 1 .. Len(segs) :
          /\ IsType(segs[i], "WinDef") /\ segs[i] # decoded[i]
          /\ IsType(segs[j], "PresComp") /\ segs[j] # decoded[j]
          /\ \E k \in 1 .. Len(segs[j].body.comp_objs) :
                segs[j].body.comp_objs[k].crop # None

\* Index of the PresentationComposition whose size the cursor holds when
\* segment i is visited (i itself if it is one), 0 if none was visited.
FullSizeSource(i) ==
    LET upto == {j \in 1 .. i : IsType(decoded[j], "PresComp")}
    IN IF upto = {} THEN 0 ELSE CHOOSE j \in upto : \A k \in upto : k <= j

\* The size of the ObjectDefinition recorded under (c, id).
InventorySize(c, id) ==
    LET j == CHOOSE j \in 1 .. Len(decoded) :
                 /\ IsType(decoded[j], "ObjDef")
                 /\ decoded[j].body.id = id
                 /\ CursorAt(j) = c
    IN Size(decoded[j].body.width, decoded[j].body.height)

RemapX(full, size, x) == cropped_object_offset(full.width, crop_width, size.width, x, margin).ret

RemapY(full, size, y) == cropped_object_offset(full.height, crop_height, size.height, y, margin).ret

DeclaredSize(i) == Size(decoded[i].body.width, decoded[i].body.height)

\* C9: every transformed CompositionObject and CropRect is remapped against
\* the original size of its own PresentationComposition, every WindowDef that
\* follows one against the original size of the last one before it, and every
\* transformed PresentationComposition declares the target size.
FullSizeIsOriginal ==
    \A i \in 1 .. Transformed :
        /\ IsType(segs[i], "PresComp") =>
              /\ segs[i].body.width = crop_width
              /\ segs[i].body.height = crop_height
              /\ \A k \in 1 .. Len(segs[i].body.comp_objs) :
                    LET old == decoded[i].body.comp_objs[k]
                        new == segs[i].body.comp_objs[k]
                        sz == InventorySize(decoded[i].body.comp_num, old.obj_id)
                    IN /\ new.x = RemapX(DeclaredSize(i), sz, old.x)
                       /\ new.y = RemapY(DeclaredSize(i), sz, old.y)
                       /\ old.crop # None =>
                             /\ new.crop # None
                             /\ new.crop[1].x = RemapX(DeclaredSize(i), old.crop[1], old.crop[1].x)
                             /\ new.crop[1].y = RemapY(DeclaredSize(i), old.crop[1], old.crop[1].y)
        /\ (IsType(segs[i], "WinDef") /\ FullSizeSource(i) # 0) =>
              \A k \in 1 .. Len(segs[i].body.wds) :
                 LET old == decoded[i].body.wds[k]
                     new == segs[i].body.wds[k]
                     full == DeclaredSize(FullSizeSource(i))
                 IN /\ new.x = RemapX(full, old, old.x)
                    /\ new.y = RemapY(full, old, old.y)

\* The pass has completed on a list in which a window follows two compositions
\* of different declared sizes, and on one whose composition carries objects.
FullSizeIsOriginalWitness ==
    /\ pc = "write"
    /\ \E i \in 1 .. Len(segs) :
          /\ IsType(segs[i], "WinDef")
          /\ FullSizeSource(i) # 0
          /\ segs[i] # decoded[i]
          /\ \E j \in 1 .. FullSizeSource(i) :
                /\ IsType(decoded[j], "PresComp")
                /\ Len(decoded[j].body.comp_objs) > 0
                /\ DeclaredSize(j) # Size(crop_width, crop_height)

\* C10: no u16 operation of a cropped_object_offset call made by the transform
\* pass leaves 0..65535.
NoArithOverflow == panic # "arithmetic overflow" /\ ~wrapped

====
